---- MODULE Spec2Model ----
(***************************************************************************)
(* A model of SunCycle.py: the Settings object (location and timezone      *)
(* resolution with its two caches), the SunCycle scheduler (start, loop,   *)
(* cycle, stop) and the module-level singleton restart, together with the  *)
(* host collaborators the code talks to: the package settings store with   *)
(* its single named change listener, the preference store, the timer       *)
(* queue, the clock and the two web services.                              *)
(*                                                                         *)
(* Python values: None is the record [none |-> TRUE], any other value v is *)
(* Some(v).  Strings that the code takes apart (color scheme paths) are    *)
(* sequences of tokens, so that startswith, endswith and replace are       *)
(* computed.  Dictionaries are records; "k in d" is k \in DOMAIN d.         *)
(* datetimes are whole seconds since an epoch, timedeltas are seconds.     *)
(***************************************************************************)
EXTENDS Integers, Sequences, FiniteSets, TLC

VARIABLES
    pyVersion,   \* module global pyVersion (2 or 3), fixed at import
    conf,        \* content of the host's SunCycle.sublime-settings store
    listener,    \* instance whose Settings.load is the registered on_change listener (0: none)
    prefs,       \* content of the host's Preferences.sublime-settings store
    now,         \* the clock, in seconds
    advances,    \* number of times the clock was advanced
    changes,     \* number of times the package settings were changed
    sunCycle,    \* module global sunCycle: the instance in the singleton slot
    inst,        \* the SunCycle instances
    settings,    \* the Settings object each instance's start() constructs
    last         \* what the last operation did (history)

vars == <<pyVersion, conf, listener, prefs, now, advances, changes, sunCycle, inst, settings, last>>

-----------------------------------------------------------------------------
(* Bounds *)

MaxInst == 2
MaxAdvances == 2
MaxChanges == 1

Inst == 1..MaxInst

-----------------------------------------------------------------------------
(* Python values *)

None == [none |-> TRUE]
Some(v) == [none |-> FALSE, v |-> v]

\* truth value of a str-or-None
Truthy(x) == x # None /\ x.v # <<>>

\* dict.get(key) on a dictionary modelled as a record
DictGet(d, k) == IF k \in DOMAIN d THEN Some(d[k]) ELSE None

-----------------------------------------------------------------------------
(* Module constants *)

ST2_THEME_PREFIX == <<"Packages/", "Color Scheme - Default/">>
ST2_THEME_SUFFIX == <<".tmTheme">>
ST3_THEME_PREFIX == <<"Packages/", "User/">>
ST3_THEME_SUFFIX == <<" (SL)", ".tmTheme">>

TZ_CACHE_LIFETIME == 86400
IP_CACHE_LIFETIME == 86400

-----------------------------------------------------------------------------
(* str methods, on token sequences *)

StartsWith(s, p) == Len(p) <= Len(s) /\ SubSeq(s, 1, Len(p)) = p

EndsWith(s, p) == Len(p) <= Len(s) /\ SubSeq(s, Len(s) - Len(p) + 1, Len(s)) = p

RECURSIVE Replace(_, _, _)
\* s.replace(old, new) for a non-empty old: every occurrence, left to right
Replace(s, old, new) ==
    IF Len(s) < Len(old) THEN s
    ELSE IF StartsWith(s, old)
         THEN new \o Replace(SubSeq(s, Len(old) + 1, Len(s)), old, new)
         ELSE <<Head(s)>> \o Replace(Tail(s), old, new)

-----------------------------------------------------------------------------
(* The inputs: configurations, web service answers, clock steps *)

Monokai == ST2_THEME_PREFIX \o <<"Monokai">> \o ST2_THEME_SUFFIX
MonokaiSL == ST3_THEME_PREFIX \o <<"Monokai">> \o ST3_THEME_SUFFIX
Solarized == <<"Packages/", "Solarized/", "Dark">> \o ST2_THEME_SUFFIX

DayBlock == [color_scheme |-> Monokai, theme |-> <<"Light.sublime-theme">>]
NightBlock == [color_scheme |-> Solarized, theme |-> <<"Dark.sublime-theme">>]
DayThemeOnly == [theme |-> <<"Light.sublime-theme">>]
NightSchemeOnly == [color_scheme |-> Solarized]

\* contents of SunCycle.sublime-settings
CfgDynamic == [day |-> DayBlock, night |-> NightBlock]
CfgFixed == [day |-> DayBlock, night |-> NightBlock, latitude |-> 51, longitude |-> 4]
CfgFixedOther == [day |-> DayThemeOnly, night |-> NightSchemeOnly, latitude |-> 40, longitude |-> 116]
CfgNoNight == [day |-> DayBlock]
CfgNoDay == [night |-> NightBlock, latitude |-> 51, longitude |-> 4]
Configs == {CfgDynamic, CfgFixed, CfgFixedOther, CfgNoNight, CfgNoDay}

\* what _callJsonApi returns for IP_URL: None on any error, else the parsed payload
GeoResults ==
    { None,
      Some([longitude |-> 4]),
      Some([latitude |-> 51, longitude |-> 4]),
      Some([latitude |-> 40, longitude |-> 116]) }

\* what _callJsonApi returns for TZ_URL
TzResults ==
    { None,
      Some([status |-> "ZERO_RESULTS"]),
      Some([timeZoneName |-> "CET"]),
      Some([timeZoneName |-> "NZDT", rawOffset |-> 39600, dstOffset |-> 3600]) }

\* clock steps: one second, 23 hours, one day
ClockSteps == {1, 82800, 86400}

\* the clock when the package is loaded: one second before 06:00 UTC
StartClock == 21599

\* initial contents of Preferences.sublime-settings
InitPrefs ==
    { [color_scheme |-> None, theme |-> None],
      [color_scheme |-> Some(MonokaiSL), theme |-> Some(<<"Light.sublime-theme">>)] }

-----------------------------------------------------------------------------
(* class Settings *)

\* the attributes __init__ sets; the others are first assigned by load(),
\* attrs tells whether that has happened
NewSettings ==
    [ exists |-> TRUE, loaded |-> FALSE, sun |-> None, coordinates |-> None,
      timezone |-> None, attrs |-> FALSE, day |-> None, night |-> None,
      fixedCoordinates |-> FALSE, ipcache |-> None, tzcache |-> None ]

NoSettings == [NewSettings EXCEPT !.exists = FALSE]

\* Sun(coordinates)
Sun(c) == Some([coordinates |-> c.v])

\* timezone.UTC() and timezone.FixedOffset(offset, name)
UTC == Some([kind |-> "UTC"])
FixedOffset(offset, name) == Some([kind |-> "FixedOffset", offset |-> offset, name |-> name])

\* a faulty _needsIpCacheRefresh: an entry exactly IP_CACHE_LIFETIME old counts as stale
_needsIpCacheRefresh_inclusive(s, datetime) ==
    IF s.ipcache = None THEN TRUE
    ELSE s.ipcache.v.date <= datetime - IP_CACHE_LIFETIME

_needsIpCacheRefresh(s, datetime) ==
    IF s.ipcache = None THEN TRUE
    ELSE s.ipcache.v.date < datetime - IP_CACHE_LIFETIME

\* a faulty _needsTzCacheRefresh: the coordinates snapshot is not compared
_needsTzCacheRefresh_noCoordinates(s, datetime) ==
    IF s.tzcache = None THEN TRUE
    ELSE IF s.tzcache.v.fixedCoordinates # s.fixedCoordinates THEN TRUE
    ELSE s.tzcache.v.date < datetime - TZ_CACHE_LIFETIME

_needsTzCacheRefresh(s, datetime) ==
    IF s.tzcache = None THEN TRUE
    ELSE IF s.tzcache.v.fixedCoordinates # s.fixedCoordinates THEN TRUE
    ELSE IF s.tzcache.v.coordinates # s.coordinates THEN TRUE
    ELSE s.tzcache.v.date < datetime - TZ_CACHE_LIFETIME

\* what the geo-IP service answered: nothing, a payload lacking a
\* coordinate, or both coordinates
GeoAnswer(geo) ==
    IF geo = None THEN "none"
    ELSE IF "latitude" \in DOMAIN geo.v /\ "longitude" \in DOMAIN geo.v THEN "ok"
    ELSE "lacking"

\* what the timezone service answered: nothing, a payload without
\* timeZoneName, one with timeZoneName but without an offset, or all three
TzAnswer(tz) ==
    IF tz = None THEN "none"
    ELSE IF "timeZoneName" \notin DOMAIN tz.v THEN "empty"
    ELSE IF "rawOffset" \notin DOMAIN tz.v \/ "dstOffset" \notin DOMAIN tz.v THEN "partial"
    ELSE "full"

\* the tail of getSun: return self.sun or raise KeyError
SunOrRaise(s, ip) ==
    [ s |-> s, raised |-> IF s.sun # None THEN "none" ELSE "KeyError: no coordinates",
      ip |-> ip ]

\* a faulty getSun: the cache is consulted before the mode flag
getSun_cacheFirst(s, t, geo) ==
    IF _needsIpCacheRefresh(s, t)
    THEN [ s |-> [s EXCEPT !.ipcache = Some([date |-> t])],
           raised |-> IF geo = None THEN "TypeError" ELSE "none",
           ip |-> <<[answer |-> GeoAnswer(geo), entry |-> s.ipcache]>> ]
    ELSE SunOrRaise(s, <<>>)

\* getSun with the clock reading t and the answer geo the geo-IP service
\* gives if it is asked: the Settings object afterwards, the exception
\* raised ("none": self.sun is returned) and the requests made, each with
\* its answer and the cache entry that was found stale
getSun(s, t, geo) ==
    IF s.fixedCoordinates
    THEN [ s |-> IF s.sun = None THEN [s EXCEPT !.sun = Sun(s.coordinates)] ELSE s,
           raised |-> "none", ip |-> <<>> ]
    ELSE IF _needsIpCacheRefresh(s, t)
    THEN LET s1 == [s EXCEPT !.ipcache = Some([date |-> t])]
             asked == <<[answer |-> GeoAnswer(geo), entry |-> s.ipcache]>>
         IN IF geo = None
            THEN \* 'latitude' in None
                 [s |-> s1, raised |-> "TypeError", ip |-> asked]
            ELSE IF "latitude" \in DOMAIN geo.v /\ "longitude" \in DOMAIN geo.v
            THEN LET c == Some([latitude |-> geo.v.latitude, longitude |-> geo.v.longitude])
                 IN [ s |-> [s1 EXCEPT !.coordinates = c, !.sun = Sun(c)],
                      raised |-> "none", ip |-> asked ]
            ELSE SunOrRaise(s1, asked)
    ELSE SunOrRaise(s, <<>>)

\* a faulty getTimeZone: the cache entry is recorded only when the lookup succeeded
getTimeZone_recordOnSuccess(s, t, tz) ==
    IF _needsTzCacheRefresh(s, t)
    THEN IF s.coordinates = None
         THEN \* TZ_URL.format(None, timestamp)
              [s |-> s, raised |-> "TypeError", tz |-> <<>>]
         ELSE LET s1 == [s EXCEPT !.tzcache =
                             Some([date |-> t, fixedCoordinates |-> s.fixedCoordinates,
                                   coordinates |-> s.coordinates])]
                  asked == <<[answer |-> TzAnswer(tz), location |-> s.coordinates,
                             entry |-> s.tzcache]>>
              IN IF tz # None /\ "timeZoneName" \in DOMAIN tz.v
                 THEN IF "rawOffset" \in DOMAIN tz.v /\ "dstOffset" \in DOMAIN tz.v
                      THEN [ s |-> [s1 EXCEPT !.timezone =
                                        FixedOffset((tz.v.rawOffset + tz.v.dstOffset) \div 60,
                                                    tz.v.timeZoneName)],
                             raised |-> "none", tz |-> asked ]
                      ELSE \* result['rawOffset'], result['dstOffset']
                           [s |-> s, raised |-> "KeyError", tz |-> asked]
                 ELSE [s |-> [s EXCEPT !.timezone = UTC], raised |-> "none", tz |-> asked]
    ELSE [s |-> s, raised |-> "none", tz |-> <<>>]

\* getTimeZone with the clock reading t and the answer tz of the timezone
\* service if it is asked; each request is recorded with its answer, the
\* location it was made for and the cache entry that was found stale
getTimeZone(s, t, tz) ==
    IF _needsTzCacheRefresh(s, t)
    THEN IF s.coordinates = None
         THEN \* TZ_URL.format(None, timestamp)
              [s |-> s, raised |-> "TypeError", tz |-> <<>>]
         ELSE LET s1 == [s EXCEPT !.tzcache =
                             Some([date |-> t, fixedCoordinates |-> s.fixedCoordinates,
                                   coordinates |-> s.coordinates])]
                  asked == <<[answer |-> TzAnswer(tz), location |-> s.coordinates,
                             entry |-> s.tzcache]>>
              IN IF tz # None /\ "timeZoneName" \in DOMAIN tz.v
                 THEN IF "rawOffset" \in DOMAIN tz.v /\ "dstOffset" \in DOMAIN tz.v
                      THEN [ s |-> [s1 EXCEPT !.timezone =
                                        FixedOffset((tz.v.rawOffset + tz.v.dstOffset) \div 60,
                                                    tz.v.timeZoneName)],
                             raised |-> "none", tz |-> asked ]
                      ELSE \* result['rawOffset'], result['dstOffset']
                           [s |-> s1, raised |-> "KeyError", tz |-> asked]
                 ELSE [s |-> [s1 EXCEPT !.timezone = UTC], raised |-> "none", tz |-> asked]
    ELSE [s |-> s, raised |-> "none", tz |-> <<>>]

\* the first lines of load(): which exception the validation raises
load_check(cfg) ==
    IF "day" \notin DOMAIN cfg THEN "KeyError: missing day setting"
    ELSE IF "night" \notin DOMAIN cfg THEN "KeyError: missing night setting"
    ELSE "none"

\* load() from the reset of the caches to the coordinates from the settings
load_reset(s, cfg) ==
    LET fixed == "latitude" \in DOMAIN cfg /\ "longitude" \in DOMAIN cfg
    IN [s EXCEPT !.attrs = TRUE, !.tzcache = None, !.ipcache = None,
                 !.day = Some(cfg.day), !.night = Some(cfg.night),
                 !.fixedCoordinates = fixed,
                 !.coordinates =
                     IF fixed
                     THEN Some([latitude |-> cfg.latitude, longitude |-> cfg.longitude])
                     ELSE @]

\* a faulty load_resolve: the caches are reset before the blocks are validated
load_resolve_resetFirst(s, cfg, t, geo, tz) ==
    IF load_check(cfg) # "none"
    THEN [ s |-> [s EXCEPT !.tzcache = None, !.ipcache = None],
           raised |-> load_check(cfg), ip |-> <<>>, tz |-> <<>> ]
    ELSE LET zoned(g, z) == [s |-> z.s, raised |-> z.raised, ip |-> g.ip, tz |-> z.tz]
             located(g) ==
                 IF g.raised # "none"
                 THEN [s |-> g.s, raised |-> g.raised, ip |-> g.ip, tz |-> <<>>]
                 ELSE zoned(g, getTimeZone(g.s, t, tz))
         IN located(getSun(load_reset(s, cfg), t, geo))

\* load() up to the two log lines: validation, reset, eager resolution
load_resolve(s, cfg, t, geo, tz) ==
    IF load_check(cfg) # "none"
    THEN [s |-> s, raised |-> load_check(cfg), ip |-> <<>>, tz |-> <<>>]
    ELSE LET zoned(g, z) == [s |-> z.s, raised |-> z.raised, ip |-> g.ip, tz |-> z.tz]
             located(g) ==
                 IF g.raised # "none"
                 THEN [s |-> g.s, raised |-> g.raised, ip |-> g.ip, tz |-> <<>>]
                 ELSE zoned(g, getTimeZone(g.s, t, tz))
         IN located(getSun(load_reset(s, cfg), t, geo))

-----------------------------------------------------------------------------
(* sun.Sun: sunrise and sunset of the day of a datetime, for the coordinates *)
(* the evaluator was built from                                             *)

SecondsPerDay == 86400

\* seconds after local midnight
SunriseSecond(c) == 21600 + 60 * (c.latitude - 51)
SunsetSecond(c) == 64800 - 60 * (c.latitude - 51)

\* datetime.now(tz): the clock reading in the zone, as seconds
LocalNow(t, zone) == IF zone.v.kind = "UTC" THEN t ELSE t + 60 * zone.v.offset

Midnight(local) == local - (local % SecondsPerDay)

sunrise(sun, local) == Midnight(local) + SunriseSecond(sun.v.coordinates)
sunset(sun, local) == Midnight(local) + SunsetSecond(sun.v.coordinates)

-----------------------------------------------------------------------------
(* class SunCycle *)

\* a faulty getDayOrNight: sunrise and sunset themselves count as night
getDayOrNight_exclusive(s, t, geo, tz, naive) ==
    LET part(sun, local) ==
            IF local > sunrise(sun, local) /\ local < sunset(sun, local)
            THEN "day" ELSE "night"
        zoned(g, z) ==
            IF z.raised # "none"
            THEN [s |-> z.s, raised |-> z.raised, ip |-> g.ip, tz |-> z.tz, dayPart |-> "none"]
            ELSE [ s |-> z.s, raised |-> "none", ip |-> g.ip, tz |-> z.tz,
                   dayPart |-> IF z.s.timezone = None THEN naive
                               ELSE part(z.s.sun, LocalNow(t, z.s.timezone)) ]
        located(g) ==
            IF g.raised # "none"
            THEN [s |-> g.s, raised |-> g.raised, ip |-> g.ip, tz |-> <<>>, dayPart |-> "none"]
            ELSE zoned(g, getTimeZone(g.s, t, tz))
    IN located(getSun(s, t, geo))

\* getDayOrNight; naive is what the comparison gives when the timezone is
\* None and datetime.now(tz=None) is the host's naive local time
getDayOrNight(s, t, geo, tz, naive) ==
    LET part(sun, local) ==
            IF local >= sunrise(sun, local) /\ local <= sunset(sun, local)
            THEN "day" ELSE "night"
        zoned(g, z) ==
            IF z.raised # "none"
            THEN [s |-> z.s, raised |-> z.raised, ip |-> g.ip, tz |-> z.tz, dayPart |-> "none"]
            ELSE [ s |-> z.s, raised |-> "none", ip |-> g.ip, tz |-> z.tz,
                   dayPart |-> IF z.s.timezone = None THEN naive
                               ELSE part(z.s.sun, LocalNow(t, z.s.timezone)) ]
        located(g) ==
            IF g.raised # "none"
            THEN [s |-> g.s, raised |-> g.raised, ip |-> g.ip, tz |-> <<>>, dayPart |-> "none"]
            ELSE zoned(g, getTimeZone(g.s, t, tz))
    IN located(getSun(s, t, geo))

\* a faulty compareWith: the configured name is compared as it is
compareWith_untranslated(py, newColorScheme) == newColorScheme

\* the value cycle() compares the host's color scheme with
compareWith(py, newColorScheme) ==
    IF py = 3 /\ StartsWith(newColorScheme.v, ST2_THEME_PREFIX)
              /\ EndsWith(newColorScheme.v, ST2_THEME_SUFFIX)
    THEN Some(ST3_THEME_PREFIX
              \o Replace(Replace(newColorScheme.v, ST2_THEME_PREFIX, <<>>), ST2_THEME_SUFFIX, <<>>)
              \o ST3_THEME_SUFFIX)
    ELSE newColorScheme

\* the result of an operation that ran no cycle
NoCycle(s, p) ==
    [ s |-> s, p |-> p, raised |-> "none", ip |-> <<>>, tz |-> <<>>, writes |-> <<>>,
      saves |-> 0, dayPart |-> "none", cycles |-> 0, ev |-> <<>> ]

\* "if new and compare != sublimeSettings.get(key): sublimeSettings.set(key, new);
\* sublimeSettingsChanged = True" on the store w.p, with the set() calls made
\* so far in w.writes and the flag in w.changed
SetIfNew(w, key, new, compare) ==
    IF Truthy(new) /\ compare # w.p[key]
    THEN [ p |-> [w.p EXCEPT ![key] = new],
           writes |-> Append(w.writes, [key |-> key, value |-> new]),
           changed |-> TRUE ]
    ELSE w

\* a faulty cycle: the store is saved after each set()
cycle_savePerField(py, has, s, p, t, geo, tz, naive) ==
    LET failed(d, exc) ==
            [ s |-> d.s, p |-> p, raised |-> exc, ip |-> d.ip, tz |-> d.tz,
              writes |-> <<>>, saves |-> 0, dayPart |-> d.dayPart, cycles |-> 1,
              ev |-> <<"cycle">> ]
        saved(d, w) ==
            [ s |-> d.s, p |-> w.p, raised |-> "none", ip |-> d.ip, tz |-> d.tz,
              writes |-> w.writes, saves |-> Len(w.writes),
              dayPart |-> d.dayPart, cycles |-> 1, ev |-> <<"cycle">> ]
        switch(d, newColorScheme, newTheme) ==
            IF py = 3 /\ newColorScheme = None
            THEN \* None.startswith
                 failed(d, "AttributeError")
            ELSE saved(d, SetIfNew(SetIfNew([p |-> p, writes |-> <<>>, changed |-> FALSE],
                                            "color_scheme",
                                            newColorScheme, compareWith(py, newColorScheme)),
                                   "theme", newTheme, newTheme))
        configured(d, config) ==
            switch(d, DictGet(config, "color_scheme"), DictGet(config, "theme"))
        classified(d) ==
            IF d.raised # "none" THEN failed(d, d.raised)
            ELSE configured(d, IF d.dayPart = "day" THEN d.s.day.v ELSE d.s.night.v)
    IN IF ~has
       THEN \* self.settings
            [NoCycle(s, p) EXCEPT !.raised = "AttributeError", !.cycles = 1,
                                  !.ev = <<"cycle">>]
       ELSE classified(getDayOrNight(s, t, geo, tz, naive))

\* cycle() of an instance whose settings attribute is bound (has) or not, on
\* its Settings object s and the preference store p (sublime.load_settings
\* returns the store, never None)
cycle(py, has, s, p, t, geo, tz, naive) ==
    LET failed(d, exc) ==
            [ s |-> d.s, p |-> p, raised |-> exc, ip |-> d.ip, tz |-> d.tz,
              writes |-> <<>>, saves |-> 0, dayPart |-> d.dayPart, cycles |-> 1,
              ev |-> <<"cycle">> ]
        saved(d, w) ==
            [ s |-> d.s, p |-> w.p, raised |-> "none", ip |-> d.ip, tz |-> d.tz,
              writes |-> w.writes, saves |-> IF w.changed THEN 1 ELSE 0,
              dayPart |-> d.dayPart, cycles |-> 1, ev |-> <<"cycle">> ]
        switch(d, newColorScheme, newTheme) ==
            IF py = 3 /\ newColorScheme = None
            THEN \* None.startswith
                 failed(d, "AttributeError")
            ELSE saved(d, SetIfNew(SetIfNew([p |-> p, writes |-> <<>>, changed |-> FALSE],
                                            "color_scheme",
                                            newColorScheme, compareWith(py, newColorScheme)),
                                   "theme", newTheme, newTheme))
        configured(d, config) ==
            switch(d, DictGet(config, "color_scheme"), DictGet(config, "theme"))
        classified(d) ==
            IF d.raised # "none" THEN failed(d, d.raised)
            ELSE configured(d, IF d.dayPart = "day" THEN d.s.day.v ELSE d.s.night.v)
    IN IF ~has
       THEN \* self.settings
            [NoCycle(s, p) EXCEPT !.raised = "AttributeError", !.cycles = 1,
                                  !.ev = <<"cycle">>]
       ELSE classified(getDayOrNight(s, t, geo, tz, naive))

\* Settings.load() whole: the resolution, then the onChange callback (the
\* owner's cycle) when an earlier load has completed, then loaded = True
load(py, has, s, p, cfg, t, geo, tz, naive) ==
    LET resolved(r) ==
            IF r.raised # "none"
            THEN [NoCycle(r.s, p) EXCEPT !.raised = r.raised, !.ip = r.ip, !.tz = r.tz]
            ELSE IF r.s.loaded
            THEN [ cycle(py, has, r.s, p, t, geo, tz, naive)
                     EXCEPT !.ip = r.ip \o @, !.tz = r.tz \o @,
                            !.ev = <<"resolve", "onChange">> \o @ ]
            ELSE [ NoCycle([r.s EXCEPT !.loaded = TRUE], p)
                     EXCEPT !.ip = r.ip, !.tz = r.tz, !.ev = <<"resolve">> ]
    IN resolved(load_resolve(s, cfg, t, geo, tz))

\* a faulty loop: the halt flag is not looked at
loop_ignoresHalt(py, halt, has, s, p, t, geo, tz, naive) ==
    [ c |-> [cycle(py, has, s, p, t, geo, tz, naive) EXCEPT !.ev = <<"set_timeout">> \o @],
      armed |-> 1 ]

\* a faulty loop: the next timer is armed only after cycle() has returned
loop_cycleFirst(py, halt, has, s, p, t, geo, tz, naive) ==
    IF ~halt
    THEN LET returned(c) ==
                 IF c.raised = "none"
                 THEN [c |-> [c EXCEPT !.ev = @ \o <<"set_timeout">>], armed |-> 1]
                 ELSE [c |-> c, armed |-> 0]
         IN returned(cycle(py, has, s, p, t, geo, tz, naive))
    ELSE [c |-> NoCycle(s, p), armed |-> 0]

\* a faulty loop: a timer is armed before cycle() and another after it
loop_armsTwice(py, halt, has, s, p, t, geo, tz, naive) ==
    IF ~halt
    THEN [ c |-> [ cycle(py, has, s, p, t, geo, tz, naive)
                     EXCEPT !.ev = <<"set_timeout">> \o @ \o <<"set_timeout">> ],
           armed |-> 2 ]
    ELSE [c |-> NoCycle(s, p), armed |-> 0]

\* loop(): unless halted, arm the next timer, then cycle
loop(py, halt, has, s, p, t, geo, tz, naive) ==
    IF ~halt
    THEN [ c |-> [ cycle(py, has, s, p, t, geo, tz, naive)
                     EXCEPT !.ev = <<"set_timeout">> \o @ ],
           armed |-> 1 ]
    ELSE [c |-> NoCycle(s, p), armed |-> 0]

\* stop(): set the halt flag
stop(x) == [x EXCEPT !.halt = TRUE]

-----------------------------------------------------------------------------
(* The answers of the two services are drawn only for the requests that are *)
(* made.  Within one operation the accessors run at one clock reading, so   *)
(* only the first getSun and the first getTimeZone can find a stale cache.  *)

\* s is the Settings object as the first getSun of the operation finds it
GeoIn(E, s, t) ==
    IF ~s.fixedCoordinates /\ _needsIpCacheRefresh(s, t) THEN E.geo ELSE {None}

TzIn(E, s, t, geo) ==
    LET asked(g) ==
            g.raised = "none" /\ g.s.coordinates # None /\ _needsTzCacheRefresh(g.s, t)
    IN IF asked(getSun(s, t, geo)) THEN E.tz ELSE {None}

NaiveIn(s, t, geo, tz) ==
    LET naiveNow(d) == d.raised = "none" /\ d.s.timezone = None
    IN IF naiveNow(getDayOrNight(s, t, geo, tz, "day")) THEN {"day", "night"} ELSE {"day"}

\* the inputs of an operation whose first accessor call finds s; none are
\* drawn when no accessor runs
Inputs(E, runs, s, t) ==
    IF runs
    THEN UNION { UNION { { [geo |-> g, tz |-> z, naive |-> n] : n \in NaiveIn(s, t, g, z) } :
                         z \in TzIn(E, s, t, g) } :
                 g \in GeoIn(E, s, t) }
    ELSE {[geo |-> None, tz |-> None, naive |-> "day"]}

-----------------------------------------------------------------------------
(* The state machine *)

NoInstance == [created |-> FALSE, halt |-> FALSE, has |-> FALSE, start |-> 0, loop |-> 0]

\* SunCycle.__init__: halt unset, settings not bound yet, start() on a timer
NewInstance == [created |-> TRUE, halt |-> FALSE, has |-> FALSE, start |-> 1, loop |-> 0]

\* the record of an operation op of instance i that ran r (a result of load
\* or cycle) and armed so many timers
Did(op, i, r, armed) ==
    [ op |-> op, inst |-> i, raised |-> r.raised, ip |-> r.ip, tz |-> r.tz,
      writes |-> r.writes, saves |-> r.saves, dayPart |-> r.dayPart, cycles |-> r.cycles,
      armed |-> armed, ev |-> r.ev ]

Idle(op, i) ==
    [ op |-> op, inst |-> i, raised |-> "none", ip |-> <<>>, tz |-> <<>>,
      writes |-> <<>>, saves |-> 0, dayPart |-> "none", cycles |-> 0, armed |-> 0,
      ev |-> <<>> ]

\* the module has been imported once: the first instance waits for its start()
Init ==
    /\ pyVersion \in {2, 3}
    /\ conf \in Configs
    /\ listener = 0
    /\ prefs \in InitPrefs
    /\ now = StartClock
    /\ advances = 0
    /\ changes = 0
    /\ sunCycle = 1
    /\ inst = [i \in Inst |-> IF i = 1 THEN NewInstance ELSE NoInstance]
    /\ settings = [i \in Inst |-> NoSettings]
    /\ last = Idle("import", 1)

\* the host fires the timer of start(): construct the Settings (whose
\* __init__ loads), bind it, and enter loop()
Start(i, E) ==
    /\ inst[i].start > 0
    /\ \E in \in Inputs(E, load_check(conf) = "none", load_reset(NewSettings, conf), now) :
         LET looped(L, lp) ==
                 /\ settings' = [settings EXCEPT ![i] = lp.c.s]
                 /\ inst' = [inst EXCEPT ![i].start = @ - 1, ![i].has = TRUE,
                                         ![i].loop = @ + lp.armed]
                 /\ last' = Did("start", i,
                                [lp.c EXCEPT !.ip = L.ip \o @, !.tz = L.tz \o @,
                                             !.ev = L.ev \o @],
                                lp.armed)
                 /\ prefs' = lp.c.p
             constructed(L) ==
                 IF L.raised # "none"
                 THEN /\ settings' = [settings EXCEPT ![i] = L.s]
                      /\ inst' = [inst EXCEPT ![i].start = @ - 1]
                      /\ last' = Did("start", i, L, 0)
                      /\ UNCHANGED prefs
                 ELSE looped(L, loop(pyVersion, inst[i].halt, TRUE, L.s, prefs, now,
                                     in.geo, in.tz, in.naive))
         IN constructed(load(pyVersion, FALSE, NewSettings, prefs, conf, now,
                             in.geo, in.tz, in.naive))
    /\ listener' = i
    /\ UNCHANGED <<pyVersion, conf, now, advances, changes, sunCycle>>

\* the host fires a timer of loop()
Loop(i, E) ==
    /\ inst[i].loop > 0
    /\ \E in \in Inputs(E, ~inst[i].halt /\ inst[i].has, settings[i], now) :
         LET looped(lp) ==
                 /\ settings' = [settings EXCEPT ![i] = lp.c.s]
                 /\ inst' = [inst EXCEPT ![i].loop = @ - 1 + lp.armed]
                 /\ last' = Did("loop", i, lp.c, lp.armed)
                 /\ prefs' = lp.c.p
         IN looped(loop(pyVersion, inst[i].halt, inst[i].has, settings[i], prefs, now,
                        in.geo, in.tz, in.naive))
    /\ UNCHANGED <<pyVersion, conf, listener, now, advances, changes, sunCycle>>

\* the user saves the package settings; the host calls the registered
\* listener, a bound load(), if there is one
ConfigChange(cfg, E) ==
    /\ changes < MaxChanges
    /\ changes' = changes + 1
    /\ conf' = cfg
    /\ IF listener = 0
       THEN /\ last' = Idle("change", 0)
            /\ UNCHANGED <<settings, prefs>>
       ELSE LET i == listener
                loaded(L) ==
                    /\ settings' = [settings EXCEPT ![i] = L.s]
                    /\ prefs' = L.p
                    /\ last' = Did("change", i, L, 0)
            IN \E in \in Inputs(E, load_check(cfg) = "none", load_reset(settings[i], cfg), now) :
                 loaded(load(pyVersion, inst[i].has, settings[i], prefs, cfg, now,
                             in.geo, in.tz, in.naive))
    /\ UNCHANGED <<pyVersion, listener, now, advances, sunCycle, inst>>

\* the host imports the module again: stop the instance in the slot, put a
\* new one there
Reload ==
    \E n \in Inst :
        /\ ~inst[n].created
        /\ \A m \in Inst : m < n => inst[m].created
        /\ inst' = [inst EXCEPT ![sunCycle] = stop(@), ![n] = NewInstance]
        /\ sunCycle' = n
        /\ last' = Idle("import", n)
        /\ UNCHANGED <<pyVersion, conf, listener, prefs, now, advances, changes, settings>>

\* time passes
Tick(d) ==
    /\ advances < MaxAdvances
    /\ now' = now + d
    /\ advances' = advances + 1
    /\ last' = Idle("tick", 0)
    /\ UNCHANGED <<pyVersion, conf, listener, prefs, changes, sunCycle, inst, settings>>

\* the environment: the package settings the user may save and the answers
\* the two services may give
World == [configs |-> Configs, geo |-> GeoResults, tz |-> TzResults]

Next ==
    \/ \E i \in Inst : Start(i, World)
    \/ \E i \in Inst : Loop(i, World)
    \/ \E cfg \in World.configs : ConfigChange(cfg, World)
    \/ Reload
    \/ \E d \in ClockSteps : Tick(d)

Spec == Init /\ [][Next]_vars

\* One import of the module over time: the instance's start() and loop()
\* timers, settings changes and the clock, with every configuration and every
\* service answer.  The host is Sublime Text 3 (where cycle() has its extra
\* color scheme branch) and starts without a color scheme preference.
NextResolver ==
    \/ \E i \in Inst : Start(i, World)
    \/ \E i \in Inst : Loop(i, World)
    \/ \E cfg \in World.configs : ConfigChange(cfg, World)
    \/ \E d \in ClockSteps : Tick(d)

InitResolver == Init /\ pyVersion = 3 /\ prefs.color_scheme = None

SpecResolver == InitResolver /\ [][NextResolver]_vars

\* Repeated imports of the module at one clock reading: both Python versions
\* and both initial preference stores, with a smaller choice of settings and
\* service answers.
RestartWorld ==
    [ configs |-> {CfgDynamic, CfgFixedOther, CfgNoNight},
      geo |-> {None, Some([latitude |-> 51, longitude |-> 4])},
      tz |-> {Some([timeZoneName |-> "CET"]),
              Some([timeZoneName |-> "NZDT", rawOffset |-> 39600, dstOffset |-> 3600])} ]

NextRestart ==
    \/ \E i \in Inst : Start(i, RestartWorld)
    \/ \E i \in Inst : Loop(i, RestartWorld)
    \/ \E cfg \in RestartWorld.configs : ConfigChange(cfg, RestartWorld)
    \/ Reload

InitRestart == Init /\ conf \in RestartWorld.configs

SpecRestart == InitRestart /\ [][NextRestart]_vars

-----------------------------------------------------------------------------
(* The properties *)

\* the last operation was a load() of instance i's Settings object
Loaded(i) == last.inst = i /\ (last.op = "start" \/ last.op = "change")

\* the last operation invoked loop() of instance i
LoopInvoked(i) == last.inst = i /\ (last.op = "loop" \/ (last.op = "start" /\ inst[i].has))

\* cycle() of instance i once more, with nothing changed since the last
\* operation: no cache is stale, so no service is asked
SecondCycle(i) ==
    cycle(pyVersion, inst[i].has, settings[i], prefs, now, None, None, last.dayPart)

\* C1: cycle() is idempotent: after a cycle() that returned, a second
\* cycle() with the same configuration, the same day/night classification
\* and the preference store as the first left it performs no set() and no
\* save().
C1_CycleIdempotent ==
    \A i \in Inst :
        (last.inst = i /\ last.cycles = 1 /\ last.raised = "none")
        => ((SecondCycle(i).raised = "none" /\ SecondCycle(i).dayPart = last.dayPart)
            => (SecondCycle(i).writes = <<>> /\ SecondCycle(i).saves = 0))

\* C2: once stop() has set an instance's halt flag the flag stays set, a
\* loop() callback of that instance that fires runs no cycle and arms no
\* timer, and the number of its pending timers never grows again.
C2_StoppedStaysStopped ==
    [][\A i \in Inst :
         inst[i].halt
         => /\ inst'[i].halt
            /\ inst'[i].loop <= inst[i].loop
            /\ inst'[i].start <= inst[i].start
            /\ (last'.op = "loop" /\ last'.inst = i)
               => (last'.cycles = 0 /\ last'.armed = 0 /\ inst'[i].loop = inst[i].loop - 1)]_vars

\* a loop() callback of a stopped instance has fired and none is left
C2_Witness ==
    \E i \in Inst :
        inst[i].halt /\ last.op = "loop" /\ last.inst = i /\ inst[i].loop = 0

\* C3: a stopped instance never again executes cycle() or writes the
\* preference store, by any path (its delayed start(), its periodic timer,
\* the configuration-change listener that invokes its onChange).
C3_StoppedInstanceIdle ==
    \A i \in Inst :
        (inst[i].halt /\ last.inst = i) => (last.cycles = 0 /\ last.writes = <<>>)

\* C4: after every loop() invocation with halt unset a timer for the next
\* loop() is pending, whether cycle() returned or raised.
C4_TimerRearmed ==
    \A i \in Inst :
        (LoopInvoked(i) /\ ~inst[i].halt)
        => (last.cycles = 1 /\ last.armed = 1 /\ inst[i].loop >= 1)

\* a periodic loop() whose cycle() raised because the geo-IP refresh failed
C4_Witness ==
    \E i \in Inst :
        /\ last.op = "loop" /\ last.inst = i /\ ~inst[i].halt
        /\ last.cycles = 1 /\ last.raised = "TypeError"
        /\ inst[i].loop >= 1

\* C5: in dynamic mode a failed geo-IP lookup (no result, or a payload
\* lacking latitude or longitude) makes the operation fail with the "no
\* coordinates" error when no evaluator was resolved before, and otherwise
\* raises nothing out of getSun and leaves the prior coordinates and
\* evaluator unchanged.
C5_GeoFailureIsLookupError ==
    [][\A i \in Inst :
         (last'.inst = i /\ last'.ip # <<>> /\ last'.ip[1].answer \in {"none", "lacking"})
         => IF settings[i].sun = None
            THEN last'.raised = "KeyError: no coordinates"
            ELSE /\ last'.raised \notin {"TypeError", "KeyError: no coordinates"}
                 /\ settings'[i].sun = settings[i].sun
                 /\ settings'[i].coordinates = settings[i].coordinates]_vars

\* C6: getTimeZone never fails: whatever the timezone service answered, no
\* exception leaves it, and the timezone is the UTC sentinel whenever the
\* service gave no result or a required field was missing.
C6_GetTimeZoneNeverFails ==
    \A k \in DOMAIN last.tz :
        /\ last.raised # "KeyError"
        /\ last.tz[k].answer \in {"none", "empty", "partial"}
           => settings[last.inst].timezone = UTC

\* C7: in dynamic mode, on a periodic tick (no reload in between), getSun
\* makes a geo-IP request if and only if no attempt is recorded or the last
\* recorded attempt is more than one day (86400 s) older than the clock,
\* it makes exactly one, and the attempt is recorded at the clock reading
\* whether or not it succeeded.
C7_GeoRefreshWhenStale ==
    [][\A i \in Inst :
         (last'.op = "loop" /\ last'.inst = i /\ last'.cycles = 1 /\ inst[i].has
            /\ ~settings[i].fixedCoordinates)
         => LET e == settings[i].ipcache
                stale == e = None \/ now - e.v.date > 86400
            IN /\ Len(last'.ip) = IF stale THEN 1 ELSE 0
               /\ stale => settings'[i].ipcache = Some([date |-> now])
               /\ ~stale => settings'[i].ipcache = e]_vars

\* a tick one day and one second after the recorded attempt asked the service
C7_Witness ==
    /\ last.op = "loop" /\ Len(last.ip) = 1
    /\ last.ip[1].entry = Some([date |-> now - 86401])

\* C8: in fixed mode (latitude and longitude loaded from the settings) no
\* operation makes a geo-IP request and the geo-IP cache holds no entry.
C8_FixedModeNoGeoIp ==
    \A i \in Inst :
        (settings[i].attrs /\ settings[i].fixedCoordinates)
        => /\ settings[i].ipcache = None
           /\ last.inst = i => last.ip = <<>>

\* a periodic cycle in fixed mode, more than a day after the settings were loaded
C8_Witness ==
    \E i \in Inst :
        /\ settings[i].attrs /\ settings[i].fixedCoordinates
        /\ last.op = "loop" /\ last.inst = i /\ last.cycles = 1 /\ last.raised = "none"
        /\ settings[i].tzcache # None /\ now > StartClock + 86400
        /\ settings[i].tzcache.v.date = now

\* C9: on a periodic tick, when the cache entry's coordinates or mode flag
\* differ from the resolver's, getTimeZone asks the timezone service for the
\* new coordinates whatever the entry's age; when they are equal and the
\* entry is at most one day old it asks nothing.
C9_TzCacheKeyedOnCoordinates ==
    [][\A i \in Inst :
         (last'.op = "loop" /\ last'.inst = i /\ last'.cycles = 1 /\ inst[i].has
            /\ last'.raised \notin {"TypeError", "KeyError: no coordinates"}
            /\ settings[i].tzcache # None)
         => LET e == settings[i].tzcache.v
                changed == \/ e.coordinates # settings'[i].coordinates
                           \/ e.fixedCoordinates # settings'[i].fixedCoordinates
            IN /\ changed => /\ Len(last'.tz) = 1
                             /\ last'.tz[1].location = settings'[i].coordinates
               /\ (~changed /\ now - e.date <= 86400) => last'.tz = <<>>]_vars

\* the geo-IP refresh of a tick moved the coordinates and the timezone was
\* asked for again although its entry was not older than a day
C9_Witness ==
    /\ last.op = "loop" /\ Len(last.tz) = 1
    /\ last.tz[1].entry # None
    /\ last.tz[1].entry.v.coordinates # last.tz[1].location
    /\ now - last.tz[1].entry.v.date <= 86400

\* C10: a load() of settings that lack the day or the night block fails
\* with the missing-setting error, asks neither service and leaves the
\* Settings object (blocks, mode flag, coordinates, caches, timezone) as it
\* was.
C10_MissingBlockFailsEarly ==
    [][\A i \in Inst :
         (last'.inst = i /\ last'.op \in {"start", "change"}
            /\ ("day" \notin DOMAIN conf' \/ "night" \notin DOMAIN conf'))
         => /\ last'.raised \in {"KeyError: missing day setting",
                                 "KeyError: missing night setting"}
            /\ last'.ip = <<>> /\ last'.tz = <<>> /\ last'.cycles = 0
            /\ settings'[i] = IF last'.op = "start" THEN NewSettings ELSE settings[i]]_vars

\* a reload without the night block left a dynamic-mode object with its caches
C10_Witness ==
    \E i \in Inst :
        /\ last.op = "change" /\ last.inst = i
        /\ last.raised = "KeyError: missing night setting"
        /\ settings[i].attrs /\ ~settings[i].fixedCoordinates
        /\ settings[i].ipcache # None /\ settings[i].tzcache # None

\* the block cycle() applies for a day part
TargetBlock(s, dayPart) == IF dayPart = "day" THEN s.day.v ELSE s.night.v

\* a color scheme name is of the form ST2_THEME_PREFIX <name> ST2_THEME_SUFFIX
IsST2Name(cs) == StartsWith(cs, ST2_THEME_PREFIX) /\ EndsWith(cs, ST2_THEME_SUFFIX)

\* the name under which Sublime Text 3 stores such a scheme
ST3Name(cs) ==
    ST3_THEME_PREFIX
    \o SubSeq(cs, Len(ST2_THEME_PREFIX) + 1, Len(cs) - Len(ST2_THEME_SUFFIX))
    \o ST3_THEME_SUFFIX

\* the set() calls of the last operation that wrote key
WritesOf(log, key) == {k \in DOMAIN log : log[k].key = key}

\* C11 as stated: in a cycle() that returned, a configured scheme
\* 'Packages/Color Scheme - Default/<name>.tmTheme' compares equal to a stored
\* 'Packages/User/<name> (SL).tmTheme' (no color scheme is written), and a
\* color scheme that is written is the configured value.
C11_TranslatedComparison ==
    [][\A i \in Inst :
         (last'.inst = i /\ last'.cycles = 1 /\ last'.raised = "none"
            /\ "color_scheme" \in DOMAIN TargetBlock(settings'[i], last'.dayPart))
         => LET configured == TargetBlock(settings'[i], last'.dayPart).color_scheme
            IN /\ (IsST2Name(configured) /\ prefs.color_scheme = Some(ST3Name(configured)))
                  => WritesOf(last'.writes, "color_scheme") = {}
               /\ \A k \in WritesOf(last'.writes, "color_scheme") :
                     last'.writes[k].value = Some(configured)]_vars

\* C11 amended: the same, the comparison with the stored
\* 'Packages/User/<name> (SL).tmTheme' being made under Sublime Text 3
\* (pyVersion = 3) only.
C11_TranslatedComparisonST3 ==
    [][\A i \in Inst :
         (last'.inst = i /\ last'.cycles = 1 /\ last'.raised = "none"
            /\ "color_scheme" \in DOMAIN TargetBlock(settings'[i], last'.dayPart))
         => LET configured == TargetBlock(settings'[i], last'.dayPart).color_scheme
            IN /\ (pyVersion = 3 /\ IsST2Name(configured)
                     /\ prefs.color_scheme = Some(ST3Name(configured)))
                  => WritesOf(last'.writes, "color_scheme") = {}
               /\ \A k \in WritesOf(last'.writes, "color_scheme") :
                     last'.writes[k].value = Some(configured)]_vars

\* under Sublime Text 3 a cycle() found the configured Monokai scheme stored
\* under its (SL) name and left it alone
C11_Witness ==
    \E i \in Inst :
        /\ pyVersion = 3 /\ last.inst = i /\ last.cycles = 1 /\ last.raised = "none"
        /\ "color_scheme" \in DOMAIN TargetBlock(settings[i], last.dayPart)
        /\ TargetBlock(settings[i], last.dayPart).color_scheme = Monokai
        /\ prefs.color_scheme = Some(MonokaiSL)
        /\ WritesOf(last.writes, "color_scheme") = {}

\* C12: whenever getDayOrNight classified the clock reading in a resolved
\* timezone, the result is "day" if and only if sunrise <= now <= sunset, all
\* three in that timezone: sunrise and sunset themselves are day, one second
\* before sunrise and one second after sunset are night.
C12_InclusiveBoundaries ==
    \A i \in Inst :
        (last.inst = i /\ last.dayPart # "none" /\ settings[i].timezone # None)
        => LET local == LocalNow(now, settings[i].timezone)
               rise == sunrise(settings[i].sun, local)
               set == sunset(settings[i].sun, local)
           IN /\ last.dayPart = "day" <=> (rise <= local /\ local <= set)
              /\ (local = rise \/ local = set) => last.dayPart = "day"
              /\ (local = rise - 1 \/ local = set + 1) => last.dayPart = "night"

\* a cycle classified a clock reading that is exactly the sunset
C12_Witness ==
    \E i \in Inst :
        /\ last.inst = i /\ last.cycles = 1 /\ last.dayPart = "day"
        /\ settings[i].timezone # None
        /\ LocalNow(now, settings[i].timezone)
             = sunset(settings[i].sun, LocalNow(now, settings[i].timezone))

\* a cycle classified a clock reading that is exactly the sunrise
C12_AtSunrise ==
    \E i \in Inst :
        /\ last.inst = i /\ last.cycles = 1 /\ last.dayPart = "day"
        /\ settings[i].timezone # None
        /\ LocalNow(now, settings[i].timezone)
             = sunrise(settings[i].sun, LocalNow(now, settings[i].timezone))

\* a cycle classified the second before the sunrise
C12_BeforeSunrise ==
    \E i \in Inst :
        /\ last.inst = i /\ last.cycles = 1 /\ last.dayPart = "night"
        /\ settings[i].timezone # None
        /\ LocalNow(now, settings[i].timezone)
             = sunrise(settings[i].sun, LocalNow(now, settings[i].timezone)) - 1

\* a cycle classified the second after the sunset
C12_AfterSunset ==
    \E i \in Inst :
        /\ last.inst = i /\ last.cycles = 1 /\ last.dayPart = "night"
        /\ settings[i].timezone # None
        /\ LocalNow(now, settings[i].timezone)
             = sunset(settings[i].sun, LocalNow(now, settings[i].timezone)) + 1

\* getSun returned an evaluator to the last operation of instance i: a load()
\* got past its resolution, or getTimeZone was reached, or a cycle was
\* classified
GetSunReturned(i) ==
    /\ last.inst = i
    /\ \/ \E k \in DOMAIN last.ev : last.ev[k] = "resolve"
       \/ last.raised = "KeyError"
       \/ last.dayPart # "none"

\* C13: whenever getSun returns an evaluator, the evaluator was constructed
\* from coordinates equal to the resolver's current coordinates.
C13_EvaluatorMatchesCoordinates ==
    \A i \in Inst :
        GetSunReturned(i)
        => /\ settings[i].sun # None
           /\ Some(settings[i].sun.v.coordinates) = settings[i].coordinates

\* C14: color scheme and theme are handled independently: a cycle() whose
\* target block has a theme and no color scheme returns without raising,
\* leaves the stored color scheme alone and, when the theme differs from the
\* stored one, sets the theme and saves; a block with a color scheme and no
\* theme leaves the stored theme alone.
C14_SettingsIndependent ==
    [][\A i \in Inst :
         (last'.inst = i /\ last'.cycles = 1 /\ last'.dayPart # "none")
         => LET config == TargetBlock(settings'[i], last'.dayPart)
            IN /\ ("color_scheme" \notin DOMAIN config /\ "theme" \in DOMAIN config)
                  => /\ last'.raised = "none"
                     /\ prefs'.color_scheme = prefs.color_scheme
                     /\ WritesOf(last'.writes, "color_scheme") = {}
                     /\ Some(config.theme) # prefs.theme
                        => /\ last'.writes = <<[key |-> "theme", value |-> Some(config.theme)]>>
                           /\ last'.saves = 1
                           /\ prefs'.theme = Some(config.theme)
               /\ ("theme" \notin DOMAIN config /\ "color_scheme" \in DOMAIN config)
                  => /\ last'.raised = "none"
                     /\ prefs'.theme = prefs.theme
                     /\ WritesOf(last'.writes, "theme") = {}]_vars

\* C15: every timezone request, whatever it was answered, leaves a cache
\* entry with the clock reading, the mode flag and the coordinates it was
\* made for; and a periodic cycle that finds an entry for the current
\* coordinates and mode that is at most one day old makes no request.
C15_TzAttemptRecorded ==
    [][\A i \in Inst :
         /\ (last'.inst = i /\ last'.tz # <<>>)
            => /\ Len(last'.tz) = 1
               /\ settings'[i].tzcache =
                     Some([ date |-> now,
                            fixedCoordinates |-> settings'[i].fixedCoordinates,
                            coordinates |-> last'.tz[1].location ])
         /\ (last'.op = "loop" /\ last'.inst = i /\ last'.cycles = 1 /\ inst[i].has
               /\ last'.raised \notin {"TypeError", "KeyError: no coordinates"}
               /\ settings[i].tzcache # None
               /\ settings[i].tzcache.v.coordinates = settings'[i].coordinates
               /\ settings[i].tzcache.v.fixedCoordinates = settings'[i].fixedCoordinates
               /\ now - settings[i].tzcache.v.date <= 86400)
            => last'.tz = <<>>]_vars

\* a periodic cycle exactly one day after a timezone lookup that failed (the
\* timezone is the UTC fallback) made no request
C15_Witness ==
    \E i \in Inst :
        /\ last.op = "loop" /\ last.inst = i /\ last.cycles = 1 /\ last.tz = <<>>
        /\ last.dayPart # "none"
        /\ settings[i].timezone = UTC
        /\ settings[i].tzcache # None
        /\ now - settings[i].tzcache.v.date = 86400

\* a timezone request answered with a name and no offset raised and still
\* left its cache entry
C15_FailureRecorded ==
    \E i \in Inst :
        /\ last.inst = i /\ last.raised = "KeyError" /\ last.tz # <<>>
        /\ last.tz[1].answer = "partial"
        /\ settings[i].tzcache # None /\ settings[i].tzcache.v.date = now

\* C16: an instance whose start() met a failed geo-IP lookup (no location
\* resolved yet) and that has not been stopped keeps ticking: a loop() timer
\* is pending, so that a later tick can resolve the location and apply the
\* configuration.
C16_KeepsTickingAfterFailedStart ==
    \A i \in Inst :
        (last.op = "start" /\ last.inst = i /\ ~inst[i].halt
           /\ last.ip # <<>> /\ last.ip[1].answer \in {"none", "lacking"})
        => inst[i].loop >= 1

\* C17 as stated: in every loop() invocation at most one cycle() runs, and the
\* call that arms the next timer happens after cycle() has completed.
C17_TimerArmedAfterCycle ==
    \A i \in Inst :
        LoopInvoked(i)
        => /\ Cardinality({k \in DOMAIN last.ev : last.ev[k] = "cycle"}) <= 1
           /\ \A j, k \in DOMAIN last.ev :
                 (last.ev[j] = "set_timeout" /\ last.ev[k] = "cycle") => k < j

\* the calls loop() made in the last operation (a start() first loads)
LoopEvents == IF last.op = "start" THEN Tail(last.ev) ELSE last.ev

\* C17 amended: in every loop() invocation of an instance that is not stopped
\* the next timer is armed once and then cycle() runs once, to its end,
\* within the same callback; a stopped instance does neither.
C17_TimerArmedBeforeCycle ==
    \A i \in Inst :
        LoopInvoked(i)
        => LoopEvents = IF inst[i].halt THEN <<>> ELSE <<"set_timeout", "cycle">>

\* a periodic loop() armed the next timer and then ran a cycle() that returned
C17_Witness ==
    \E i \in Inst :
        /\ last.op = "loop" /\ last.inst = i /\ ~inst[i].halt
        /\ last.ev = <<"set_timeout", "cycle">>
        /\ last.raised = "none" /\ last.armed = 1

\* how often a call occurs among the calls of the last operation
Calls(name) == Cardinality({k \in DOMAIN last.ev : last.ev[k] = name})

\* C18: the first load() of a Settings object (the one in its constructor)
\* does not invoke onChange, also when it fails; every later load() that
\* re-resolves coordinates and timezone invokes onChange exactly once, after
\* the resolution; one that fails before or in the resolution invokes nothing.
C18_OnChangeAfterFirstLoad ==
    \A i \in Inst :
        last.inst = i
        => /\ last.op = "start" => Calls("onChange") = 0
           /\ last.op = "change"
              => IF Calls("resolve") = 1
                 THEN /\ Calls("onChange") = 1
                      /\ SubSeq(last.ev, 1, 2) = <<"resolve", "onChange">>
                 ELSE Calls("onChange") = 0

\* C19: a cycle() saves the preference store exactly once if it set
\* color_scheme, theme or both, and not at all if it set neither.
C19_SavedOncePerCycle ==
    \A i \in Inst :
        (last.inst = i /\ last.cycles = 1)
        => last.saves = IF last.writes # <<>> THEN 1 ELSE 0

\* a cycle() set both color_scheme and theme and saved once
C19_Witness ==
    /\ last.cycles = 1 /\ last.saves = 1
    /\ WritesOf(last.writes, "color_scheme") # {}
    /\ WritesOf(last.writes, "theme") # {}

\* a cycle() returned without setting anything and did not save
C19_NothingSet ==
    last.cycles = 1 /\ last.raised = "none" /\ last.writes = <<>> /\ last.saves = 0

\* C20: every instance has at most one pending timer callback, its delayed
\* start() or its next loop().
C20_AtMostOneTimer ==
    \A i \in Inst : inst[i].start + inst[i].loop <= 1

\* a settings change ran the cycle of a running instance, which still has
\* its one timer
C20_Witness ==
    \E i \in Inst :
        /\ last.op = "change" /\ last.inst = i /\ last.cycles = 1
        /\ inst[i].start + inst[i].loop = 1

====
